---------------------------- MODULE Spec2Model ----------------------------
(* AWD to FBA shipment statistics (src/main.py): the period windows main  *)
(* computes from datetime.now(), calculate_metrics over the uploaded      *)
(* DataFrame, format_percentage, and the percentage cells of the display  *)
(* and export tables.                                                     *)
(*                                                                        *)
(* Instants are records year/month/day/hour/minute/second/nano, nano the  *)
(* sub-second part in nanoseconds: a Python datetime has microsecond      *)
(* resolution (nano a multiple of 1000), the 'Created  date' column is    *)
(* datetime64[ns].  Quantities are floats with a fractional part of 0 or  *)
(* 0.5, kept as a count of halves.  A missing cell (NaN) is <<>>, a       *)
(* present one <<v>>.                                                     *)
EXTENDS Integers, Sequences, FiniteSets, TLC

VARIABLES pc, df, today, periods, metrics, error, calls, report, args, result

vars == <<pc, df, today, periods, metrics, error, calls, report, args, result>>

-----------------------------------------------------------------------------
(* Bounds of the model.                                                    *)

\* most rows of a DataFrame handed to calculate_metrics on its own
MaxRows == 2
\* most rows of an uploaded file in a run of main
MaxFileRows == 2
\* largest value and total handed to format_percentage on its own
MaxValue == 7

-----------------------------------------------------------------------------
(* Calendar and instants.                                                  *)

IsLeap(y) == (y % 4 = 0 /\ y % 100 # 0) \/ y % 400 = 0

DaysInMonth(y, m) ==
    IF m = 2 THEN (IF IsLeap(y) THEN 29 ELSE 28)
    ELSE IF m \in {4, 6, 9, 11} THEN 30 ELSE 31

Instant(y, mo, d, h, mi, s, n) ==
    [year |-> y, month |-> mo, day |-> d, hour |-> h, minute |-> mi,
     second |-> s, nano |-> n]

Midnight(y, mo, d) == Instant(y, mo, d, 0, 0, 0, 0)

\* a < b on instants: the order of datetime, Timestamp and datetime64[ns]
Before(a, b) ==
    LET ka == <<a.year, a.month, a.day, a.hour, a.minute, a.second, a.nano>>
        kb == <<b.year, b.month, b.day, b.hour, b.minute, b.second, b.nano>>
    IN  \E i \in 1..7 : /\ ka[i] < kb[i]
                        /\ \A j \in 1..(i - 1) : ka[j] = kb[j]

NotAfter(a, b) == a = b \/ Before(a, b)

\* date.replace(day=1, hour=0, minute=0, second=0, microsecond=0)
ReplaceMonthStart(t) == Midnight(t.year, t.month, 1)

\* t.replace(hour=0, minute=0, second=0, microsecond=0)
ReplaceMidnight(t) == Midnight(t.year, t.month, t.day)

\* the replace(year=.., month=..) of the December and the other branch
NextMonthReplace(t) ==
    IF t.month = 12
    THEN [t EXCEPT !.year = t.year + 1, !.month = 1]
    ELSE [t EXCEPT !.month = t.month + 1]

\* t - pd.DateOffset(months=n): the month moves back, the day is clamped
MinusMonths(t, n) ==
    LET idx == t.year * 12 + (t.month - 1) - n
        y   == idx \div 12
        mo  == (idx % 12) + 1
        dim == DaysInMonth(y, mo)
    IN  [t EXCEPT !.year = y, !.month = mo,
                  !.day = IF t.day > dim THEN dim ELSE t.day]

\* the day before the date of t, time of day kept
PrevDay(t) ==
    IF t.day > 1 THEN [t EXCEPT !.day = t.day - 1]
    ELSE IF t.month > 1
         THEN [t EXCEPT !.month = t.month - 1,
                        !.day = DaysInMonth(t.year, t.month - 1)]
         ELSE [t EXCEPT !.year = t.year - 1, !.month = 12, !.day = 31]

\* t - pd.Timedelta(microseconds=1)
MinusMicrosecond(t) ==
    IF t.nano >= 1000 THEN [t EXCEPT !.nano = t.nano - 1000]
    ELSE LET n == t.nano + 1000000000 - 1000 IN
         IF t.second > 0 THEN [t EXCEPT !.nano = n, !.second = t.second - 1]
         ELSE IF t.minute > 0
              THEN [t EXCEPT !.nano = n, !.second = 59, !.minute = t.minute - 1]
         ELSE IF t.hour > 0
              THEN [t EXCEPT !.nano = n, !.second = 59, !.minute = 59,
                             !.hour = t.hour - 1]
         ELSE [PrevDay(t) EXCEPT !.nano = n, !.second = 59, !.minute = 59,
                                 !.hour = 23]

get_month_start_end(date) ==
    LET start_date == ReplaceMonthStart(date)
        end_date   == NextMonthReplace(start_date)
    IN  [start |-> start_date, end |-> MinusMicrosecond(end_date)]

\* The three windows of main for today = datetime.now().
ResolvePeriods(now) ==
    LET current_month_start == ReplaceMonthStart(now)
        next_month          == NextMonthReplace(current_month_start)
        current_month_end   == MinusMicrosecond(next_month)
        last_month_start    == ReplaceMidnight(MinusMonths(current_month_start, 1))
        last_month_end      == MinusMicrosecond(current_month_start)
        two_months_ago_start == ReplaceMidnight(MinusMonths(current_month_start, 2))
        two_months_ago_end  == MinusMicrosecond(last_month_start)
    IN  [two_months_ago |-> [start |-> two_months_ago_start, end |-> two_months_ago_end],
         last_month     |-> [start |-> last_month_start, end |-> last_month_end],
         current_month  |-> [start |-> current_month_start, end |-> current_month_end]]

PeriodNames == {"two_months_ago", "last_month", "current_month"}

-----------------------------------------------------------------------------
(* The DataFrame: the columns the file has and its rows.  A row holds the  *)
(* parsed date and one cell per other column; a cell of a column the file  *)
(* lacks is never read.                                                    *)

NaN == <<>>

Cell(v) == <<v>>

CreatedDate == "Created  date"
ShipmentID == "Shipment ID"
ShippedQuantity == "Shipped quantity "
ReceivedQuantity == "Received quantity "
Status == "Status"

AllColumns == {CreatedDate, ShipmentID, ShippedQuantity, ReceivedQuantity, Status}

Row(created, id, shipped, received, status) ==
    [created |-> created, id |-> id, shipped |-> shipped,
     received |-> received, status |-> status]

\* int(x) of a float x given in halves: truncation toward zero
IntOf(h) == IF h >= 0 THEN h \div 2 ELSE -((-h) \div 2)

\* Series.sum(): NaN cells are skipped, the sum of none is 0
RECURSIVE SumCells(_)
SumCells(cells) ==
    IF cells = <<>> THEN 0
    ELSE (IF Head(cells) = NaN THEN 0 ELSE Head(cells)[1]) + SumCells(Tail(cells))

RECURSIVE ColumnOf(_, _)
ColumnOf(rows, col) ==
    IF rows = <<>> THEN <<>>
    ELSE <<(IF col = ShippedQuantity THEN Head(rows).shipped
            ELSE Head(rows).received)>> \o ColumnOf(Tail(rows), col)

\* the mask of line 17: start_date <= created <= end_date
InPeriod(created, start_date, end_date) ==
    NotAfter(start_date, created) /\ NotAfter(created, end_date)

\* df[mask]
PeriodRows(rows, start_date, end_date) ==
    LET Keep(r) == InPeriod(r.created, start_date, end_date)
    IN  SelectSeq(rows, Keep)

\* groupby('Shipment ID'): the keys, rows with a NaN key dropped
GroupKeys(rows) ==
    {rows[i].id[1] : i \in {j \in 1..Len(rows) : rows[j].id # NaN}}

\* .agg({... 'sum', ... 'sum', 'Status': set}) of one group
Aggregate(rows, key) ==
    LET InGroup(r) == r.id = Cell(key)
        group == SelectSeq(rows, InGroup)
    IN  [shipped  |-> SumCells(ColumnOf(group, ShippedQuantity)),
         received |-> SumCells(ColumnOf(group, ReceivedQuantity)),
         status   |-> {group[i].status : i \in 1..Len(group)}]

\* line 43 had it read the Status set: a shipment whose rows all say
\* "Closed" is not open
IsOpenUnlessClosed(agg) == agg.received < agg.shipped /\ agg.status # {"Closed"}

\* line 43 with != for <: any mismatch of the two sums counts as open
IsOpenOnMismatch(agg) == agg.received # agg.shipped

\* line 43: 'Received quantity ' < 'Shipped quantity ' on the aggregates
IsOpen(agg) == agg.received < agg.shipped

RECURSIVE SumOver(_, _, _)
SumOver(totals, keys, field) ==
    IF keys = {} THEN 0
    ELSE LET k == CHOOSE x \in keys : TRUE
         IN  (IF field = "shipped" THEN totals[k].shipped ELSE totals[k].received)
             + SumOver(totals, keys \ {k}, field)

ZeroMetrics ==
    [total_units_sent |-> 0, total_units_received |-> 0, open_shipments |-> 0,
     total_units_in_os |-> 0, units_received_os |-> 0, units_not_received_os |-> 0]

Returned(m) == [raised |-> "", value |-> m]

Raised(e) == [raised |-> e, value |-> ZeroMetrics]

\* calculate_metrics(df, start_date, end_date); d = [columns, rows].  A column
\* the frame lacks raises KeyError where the code first names it.
calculate_metrics(d, start_date, end_date) ==
    IF CreatedDate \notin d.columns THEN Raised("KeyError")
    ELSE
    LET period_df == PeriodRows(d.rows, start_date, end_date) IN
    IF Len(period_df) = 0 THEN Returned(ZeroMetrics)
    ELSE IF ~({ShipmentID, ShippedQuantity, ReceivedQuantity, Status} \subseteq d.columns)
    THEN Raised("KeyError")
    ELSE
    LET keys == GroupKeys(period_df)
        shipment_totals == [k \in keys |-> Aggregate(period_df, k)]
        total_units_sent == IntOf(SumOver(shipment_totals, keys, "shipped"))
        total_units_received == IntOf(SumOver(shipment_totals, keys, "received"))
        open_shipments == {k \in keys : IsOpen(shipment_totals[k])}
        total_units_in_os == IntOf(SumOver(shipment_totals, open_shipments, "shipped"))
        units_received_os == IntOf(SumOver(shipment_totals, open_shipments, "received"))
        units_not_received_os == total_units_in_os - units_received_os
    IN  Returned(
        [total_units_sent |-> total_units_sent,
         total_units_received |-> total_units_received,
         open_shipments |-> Cardinality(open_shipments),
         total_units_in_os |-> total_units_in_os,
         units_received_os |-> units_received_os,
         units_not_received_os |-> units_not_received_os])

-----------------------------------------------------------------------------
(* Values of mixed Python type: a str, an int, or the float of a true      *)
(* division kept as numerator and denominator.                             *)

StrVal(s) == [t |-> "str", s |-> s]

IntVal(i) == [t |-> "int", i |-> i]

FloatVal(num, den) == [t |-> "float", num |-> num, den |-> den]

\* f"{value / total * 100:.1f}" for total > 0: the nearest tenth (a tie needs
\* a total that is a multiple of 16 and is rounded up here)
OneDecimal(value, total) ==
    LET mag    == IF value < 0 THEN -value ELSE value
        tenths == (2000 * mag + total) \div (2 * total)
    IN  (IF value < 0 THEN "-" ELSE "") \o ToString(tenths \div 10)
        \o "." \o ToString(tenths % 10)

format_percentage(value, total, force_hundred) ==
    IF value = StrVal("") THEN ""
    ELSE IF force_hundred /\ value.t = "int" /\ value.i > 0 THEN "100.0%"
    ELSE IF value.t = "int" /\ total > 0 THEN OneDecimal(value.i, total) \o "%"
    ELSE ""

\* the '%' and '%  ' columns of display_data (lines 166-173, 198-205)
DisplayPct(m) ==
    <<"", "", "",
      format_percentage(IntVal(m.total_units_in_os), m.total_units_sent, FALSE),
      format_percentage(IntVal(m.units_received_os), m.total_units_in_os, FALSE),
      format_percentage(IntVal(m.units_not_received_os), m.total_units_in_os, FALSE)>>

\* the '% ' column of display_data, last month (lines 182-189)
DisplayPctLastMonth(m) ==
    <<"100.0%",
      format_percentage(IntVal(m.total_units_received), m.total_units_sent, FALSE),
      "",
      format_percentage(IntVal(m.total_units_in_os), m.total_units_sent, FALSE),
      format_percentage(IntVal(m.units_received_os), m.total_units_in_os, FALSE),
      format_percentage(IntVal(m.units_not_received_os), m.total_units_in_os, FALSE)>>

\* x / total if total > 0 else ''
RatioOrBlank(x, total) == IF total > 0 THEN FloatVal(x, total) ELSE StrVal("")

\* the '%' and '%  ' columns of export_data (lines 219-226, 251-258)
ExportPct(m) ==
    <<StrVal(""), StrVal(""), StrVal(""),
      IF m.total_units_in_os > 0 THEN IntVal(1) ELSE StrVal(""),
      RatioOrBlank(m.units_received_os, m.total_units_in_os),
      RatioOrBlank(m.units_not_received_os, m.total_units_in_os)>>

\* the '% ' column of export_data, last month (lines 235-242)
ExportPctLastMonth(m) ==
    <<IntVal(1),
      RatioOrBlank(m.total_units_received, m.total_units_sent),
      StrVal(""),
      IF m.total_units_in_os > 0 THEN IntVal(1) ELSE StrVal(""),
      RatioOrBlank(m.units_received_os, m.total_units_in_os),
      RatioOrBlank(m.units_not_received_os, m.total_units_in_os)>>

\* the subtitle's figures (lines 135-139, 270)
Summary(ms) ==
    LET total_not_received == ms["two_months_ago"].units_not_received_os
                              + ms["last_month"].units_not_received_os
        total_units_in_os  == ms["two_months_ago"].total_units_in_os
                              + ms["last_month"].total_units_in_os
    IN  [total_not_received |-> total_not_received,
         percentage_not_received |->
             IF total_units_in_os > 0
             THEN OneDecimal(total_not_received, total_units_in_os) ELSE "0.0"]

\* what main shows and exports: the percentage columns and the subtitle
BuildReport(ms) ==
    [shown   |-> TRUE,
     display |-> [p \in PeriodNames |->
                    IF p = "last_month" THEN DisplayPctLastMonth(ms[p])
                    ELSE DisplayPct(ms[p])],
     export  |-> [p \in PeriodNames |->
                    IF p = "last_month" THEN ExportPctLastMonth(ms[p])
                    ELSE ExportPct(ms[p])],
     summary |-> Summary(ms)]

NoReport ==
    [shown |-> FALSE,
     display |-> [p \in PeriodNames |-> <<>>],
     export |-> [p \in PeriodNames |-> <<>>],
     summary |-> [total_not_received |-> 0, percentage_not_received |-> ""]]

-----------------------------------------------------------------------------
(* Inputs.                                                                 *)

Statuses == {"Closed", "Receiving"}

\* the reference instants of the runs of main: mid January (the two earlier
\* windows lie in the year before) and the last microsecond of March
MainTodays ==
    {Instant(2024, 1, 15, 10, 30, 0, 0), Instant(2024, 3, 31, 23, 59, 59, 999999000)}

\* created dates of the rows of an uploaded file: a first instant of a month,
\* an instant of the last microsecond of a month, a day inside a month, and a
\* date outside every window
FileDates ==
    {Midnight(2023, 11, 1), Instant(2023, 12, 31, 23, 59, 59, 999999500),
     Midnight(2024, 1, 1), Instant(2023, 6, 15, 12, 0, 0, 0)}

FileRowChoices ==
    {Row(c, i, s, r, "Receiving") :
        c \in FileDates, i \in {Cell("S1"), NaN}, s \in {Cell(4), NaN},
        r \in {Cell(2), Cell(4), NaN}}

\* the frame pd.read_csv / pd.read_excel gives for a file with these columns
ReadFile(columns, rows) ==
    [columns |-> columns,
     rows |-> [k \in 1..Len(rows) |->
        Row(IF CreatedDate \in columns THEN rows[k].created ELSE Midnight(1970, 1, 1),
            IF ShipmentID \in columns THEN rows[k].id ELSE NaN,
            IF ShippedQuantity \in columns THEN rows[k].shipped ELSE NaN,
            IF ReceivedQuantity \in columns THEN rows[k].received ELSE NaN,
            IF Status \in columns THEN rows[k].status ELSE "")]]

\* a file has every column or lacks one of them
FileColumns == {AllColumns} \cup {AllColumns \ {c} : c \in AllColumns}

NoFrame == [columns |-> {}, rows |-> <<>>]

NoPeriods == ResolvePeriods(Midnight(1970, 1, 1))

-----------------------------------------------------------------------------
(* A run of main, step by step.                                            *)

Init ==
    /\ pc = "idle"
    /\ df = NoFrame
    /\ today = Midnight(1970, 1, 1)
    /\ periods = NoPeriods
    /\ metrics = [p \in PeriodNames |-> ZeroMetrics]
    /\ error = ""
    /\ calls = 0
    /\ report = NoReport
    /\ args = <<>>
    /\ result = <<>>

\* lines 98-105: a file is uploaded and read
Upload ==
    /\ pc = "idle"
    /\ \E columns \in FileColumns, n \in 0..MaxFileRows :
         \E rows \in [1..n -> FileRowChoices] : df' = ReadFile(columns, rows)
    /\ pc' = "read"
    /\ UNCHANGED <<today, periods, metrics, error, calls, report, args, result>>

\* line 108: df['Created  date'] = pd.to_datetime(df['Created  date']); the
\* dates of the files of the model all parse
ConvertDates ==
    /\ pc = "read"
    /\ IF CreatedDate \in df.columns
       THEN pc' = "dated" /\ error' = error
       ELSE pc' = "aborted" /\ error' = "KeyError"
    /\ UNCHANGED <<df, today, periods, metrics, calls, report, args, result>>

\* lines 111-127: today = datetime.now() and the three windows
CalculateDateRanges(nows) ==
    /\ pc = "dated"
    /\ \E now \in nows : today' = now /\ periods' = ResolvePeriods(now)
    /\ pc' = "resolved"
    /\ UNCHANGED <<df, metrics, error, calls, report, args, result>>

\* one of lines 130-132: metrics_<p> = calculate_metrics(df, <p>_start, <p>_end)
CalculatePeriod(p, at, next) ==
    /\ pc = at
    /\ calls' = calls + 1
    /\ LET r == calculate_metrics(df, periods[p].start, periods[p].end) IN
       IF r.raised = ""
       THEN /\ metrics' = [metrics EXCEPT ![p] = r.value]
            /\ pc' = next
            /\ error' = error
       ELSE /\ metrics' = metrics
            /\ pc' = "aborted"
            /\ error' = r.raised
    /\ UNCHANGED <<df, today, periods, report, args, result>>

CalculateTwoMonthsAgo == CalculatePeriod("two_months_ago", "resolved", "first_done")

CalculateLastMonth == CalculatePeriod("last_month", "first_done", "second_done")

CalculateCurrentMonth == CalculatePeriod("current_month", "second_done", "computed")

\* lines 134-332: the table, the subtitle and the download
ShowReport ==
    /\ pc = "computed"
    /\ report' = BuildReport(metrics)
    /\ pc' = "reported"
    /\ UNCHANGED <<df, today, periods, metrics, error, calls, args, result>>

Next ==
    \/ Upload
    \/ ConvertDates
    \/ CalculateDateRanges(MainTodays)
    \/ CalculateTwoMonthsAgo
    \/ CalculateLastMonth
    \/ CalculateCurrentMonth
    \/ ShowReport

Spec == Init /\ [][Next]_vars

-----------------------------------------------------------------------------
(* The windows of main for every month of two years, with one dated row.   *)

Years == {2023, 2024}

\* datetime.now(): first, middle and last day of each month, at the first
\* and at the last microsecond of the day
PeriodTodays ==
    {Instant(y, mo, d, t[1], t[2], t[3], t[4]) :
        y \in Years, mo \in 1..12, d \in {1, 15, 28},
        t \in {<<0, 0, 0, 0>>, <<23, 59, 59, 999999000>>}}
    \cup {Instant(y, mo, DaysInMonth(y, mo), 23, 59, 59, 999999000) :
            y \in Years, mo \in 1..12}

\* created dates at the edges of each month: its first instant, its last
\* microsecond, two instants after that microsecond, and a day inside it
ProbeDates ==
    {Midnight(y, mo, d) : y \in Years, mo \in 1..12, d \in {1, 15}}
    \cup {Instant(y, mo, DaysInMonth(y, mo), 23, 59, 59, n) :
            y \in Years, mo \in 1..12, n \in {999999000, 999999500, 999999999}}

InitPeriod ==
    /\ pc = "dated"
    /\ df \in {ReadFile(AllColumns, <<Row(c, Cell("S1"), Cell(4), Cell(2), "Receiving")>>) :
                c \in ProbeDates}
    /\ today = Midnight(1970, 1, 1)
    /\ periods = NoPeriods
    /\ metrics = [p \in PeriodNames |-> ZeroMetrics]
    /\ error = ""
    /\ calls = 0
    /\ report = NoReport
    /\ args = <<>>
    /\ result = <<>>

\* get_month_start_end(today)
CallGetMonthStartEnd ==
    /\ pc = "resolved"
    /\ args' = [date |-> today]
    /\ result' = get_month_start_end(today)
    /\ pc' = "ranged"
    /\ UNCHANGED <<df, today, periods, metrics, error, calls, report>>

NextPeriod ==
    \/ CalculateDateRanges(PeriodTodays)
    \/ CallGetMonthStartEnd

SpecPeriod == InitPeriod /\ [][NextPeriod]_vars

-----------------------------------------------------------------------------
(* calculate_metrics on its own: every frame of up to MaxRows rows, for    *)
(* the last-month window of a run in March 2024.                           *)

MetricsWindow == ResolvePeriods(Instant(2024, 3, 15, 10, 30, 0, 0)).last_month

\* shipped and received of a row, in halves: 1.5 and 0.5 (open), 1 and 1
\* (closed), shipped missing and 1 received
QuantityPairs ==
    {<<Cell(3), Cell(1)>>, <<Cell(2), Cell(2)>>, <<NaN, Cell(2)>>}

MetricsRowChoices ==
    {Row(c, i, q[1], q[2], st) :
        c \in {Midnight(2024, 2, 10), Midnight(2024, 3, 1)},
        i \in {Cell("S1"), Cell("S2"), NaN},
        q \in QuantityPairs, st \in Statuses}

\* main is not running: its variables hold nothing
NoRunOfMain ==
    /\ df = <<>>
    /\ today = <<>>
    /\ periods = <<>>
    /\ metrics = <<>>
    /\ error = ""
    /\ calls = 0
    /\ report = <<>>

InitMetrics ==
    /\ pc = "call"
    /\ \E n \in 0..MaxRows : \E rows \in [1..n -> MetricsRowChoices] :
          args = [df |-> ReadFile(AllColumns, rows),
                  start_date |-> MetricsWindow.start,
                  end_date |-> MetricsWindow.end]
    /\ result = <<>>
    /\ NoRunOfMain

CallCalculateMetrics ==
    /\ pc = "call"
    /\ result' = calculate_metrics(args.df, args.start_date, args.end_date)
    /\ pc' = "returned"
    /\ UNCHANGED <<df, today, periods, metrics, error, calls, report, args>>

SpecMetrics == InitMetrics /\ [][CallCalculateMetrics]_vars

-----------------------------------------------------------------------------
(* format_percentage on its own.                                           *)

FormatValues == {StrVal(""), StrVal("n/a")} \cup {IntVal(i) : i \in -1..MaxValue}

InitFormat ==
    /\ pc = "call"
    /\ args \in [value : FormatValues, total : -1..MaxValue, force_hundred : BOOLEAN]
    /\ result = <<>>
    /\ NoRunOfMain

CallFormatPercentage ==
    /\ pc = "call"
    /\ result' = format_percentage(args.value, args.total, args.force_hundred)
    /\ pc' = "returned"
    /\ UNCHANGED <<df, today, periods, metrics, error, calls, report, args>>

SpecFormat == InitFormat /\ [][CallFormatPercentage]_vars

-----------------------------------------------------------------------------
(* What the properties speak of.                                           *)

\* the first instant of the calendar month after the month of t
FirstOfNextMonth(t) ==
    IF t.month = 12 THEN Midnight(t.year + 1, 1, 1) ELSE Midnight(t.year, t.month + 1, 1)

\* the first instant of the calendar month before the month of t
FirstOfPreviousMonth(t) ==
    IF t.month = 1 THEN Midnight(t.year - 1, 12, 1) ELSE Midnight(t.year, t.month - 1, 1)

\* start <= created < first instant of the month after start
InHalfOpenMonth(created, start) ==
    NotAfter(start, created) /\ Before(created, FirstOfNextMonth(start))

\* the rows (by position) whose created date lies in start_date..end_date
RowsInWindow(rows, start_date, end_date) ==
    {k \in 1..Len(rows) :
        NotAfter(start_date, rows[k].created) /\ NotAfter(rows[k].created, end_date)}

RECURSIVE SumQuantity(_, _, _)
\* the sum of a quantity over the rows at positions ks, a missing one adding 0
SumQuantity(rows, ks, field) ==
    IF ks = {} THEN 0
    ELSE LET k == CHOOSE x \in ks : TRUE
             c == IF field = "shipped" THEN rows[k].shipped ELSE rows[k].received
         IN  (IF c = NaN THEN 0 ELSE c[1]) + SumQuantity(rows, ks \ {k}, field)

\* the positions among ks of the rows of shipment id
RowsOfShipment(rows, ks, id) == {k \in ks : rows[k].id = Cell(id)}

ShipmentsIn(rows, ks) == {rows[k].id[1] : k \in {j \in ks : rows[j].id # NaN}}

\* the shipments whose received sum is strictly below their shipped sum
OpenShipments(rows, ks) ==
    {id \in ShipmentsIn(rows, ks) :
        SumQuantity(rows, RowsOfShipment(rows, ks, id), "received")
            < SumQuantity(rows, RowsOfShipment(rows, ks, id), "shipped")}

\* the frame d with the Status of row k replaced by f[k]
WithStatuses(d, f) ==
    [d EXCEPT !.rows = [k \in 1..Len(d.rows) |-> [d.rows[k] EXCEPT !.status = f[k]]]]

ArgRows == args.df.rows

ArgWindowRows == RowsInWindow(ArgRows, args.start_date, args.end_date)

-----------------------------------------------------------------------------
(* Properties of calculate_metrics, under SpecMetrics.                     *)

\* C1: a shipment is counted as open exactly when its received sum over the
\* window's rows is strictly below its shipped sum, and the Status strings
\* never influence the result: every reassignment of the Status values of
\* the rows gives the same six metrics.
C1_OpenByQuantitiesNotStatus ==
    pc = "returned" =>
        /\ result.raised = ""
        /\ result.value.open_shipments
             = Cardinality(OpenShipments(ArgRows, ArgWindowRows))
        /\ \A f \in [1..Len(ArgRows) -> Statuses] :
             calculate_metrics(WithStatuses(args.df, f), args.start_date, args.end_date)
                = result

\* a shipment of two rows in the window, both "Closed", received below
\* shipped, has been counted as open
C1_ClosedButOpenCounted ==
    /\ pc = "returned"
    /\ \E id \in ShipmentsIn(ArgRows, ArgWindowRows) :
         /\ Cardinality(RowsOfShipment(ArgRows, ArgWindowRows, id)) = 2
         /\ \A k \in RowsOfShipment(ArgRows, ArgWindowRows, id) :
              ArgRows[k].status = "Closed"
         /\ id \in OpenShipments(ArgRows, ArgWindowRows)
    /\ result.value.open_shipments = 1

\* C4: every in-window row is counted exactly once: total_units_sent and
\* total_units_received are the (truncated) sums of shipped and received
\* over all rows dated in the window, and the rows S1 100/40 and S1 0/20
\* give one open shipment with 100 units, 60 received, 40 not received.
C4_EveryRowCountedOnce ==
    /\ pc = "returned" =>
        /\ result.value.total_units_sent
             = IntOf(SumQuantity(ArgRows, ArgWindowRows, "shipped"))
        /\ result.value.total_units_received
             = IntOf(SumQuantity(ArgRows, ArgWindowRows, "received"))
    /\ LET d == Midnight(2024, 2, 10)
           two == ReadFile(AllColumns,
                    <<Row(d, Cell("S1"), Cell(200), Cell(80), "Receiving"),
                      Row(d, Cell("S1"), Cell(0), Cell(40), "Closed")>>)
           m == calculate_metrics(two, MetricsWindow.start, MetricsWindow.end).value
       IN  /\ m.open_shipments = 1
           /\ m.total_units_in_os = 100
           /\ m.units_received_os = 60
           /\ m.units_not_received_os = 40

\* C5: units_not_received_os = total_units_in_os - units_received_os, and it
\* is never negative.
C5_NotReceivedIsDifferenceAndNonNegative ==
    pc = "returned" =>
        /\ result.value.units_not_received_os
             = result.value.total_units_in_os - result.value.units_received_os
        /\ result.value.units_not_received_os >= 0
        /\ result.value.total_units_in_os >= result.value.units_received_os

\* an open shipment with units outstanding and a shipment that received
\* more than was shipped have been measured together
C5_OpenAndOverReceived ==
    /\ pc = "returned"
    /\ result.value.open_shipments = 1
    /\ result.value.units_not_received_os > 0
    /\ \E id \in ShipmentsIn(ArgRows, ArgWindowRows) :
         SumQuantity(ArgRows, RowsOfShipment(ArgRows, ArgWindowRows, id), "received")
            > SumQuantity(ArgRows, RowsOfShipment(ArgRows, ArgWindowRows, id), "shipped")

-----------------------------------------------------------------------------
(* Properties of the windows of main, under SpecPeriod.                    *)

Resolved == pc \in {"resolved", "ranged"}

\* row k of the frame is among the rows calculate_metrics keeps for window p
Included(k, p) ==
    Len(PeriodRows(<<df.rows[k]>>, periods[p].start, periods[p].end)) = 1

\* C2: a row is included in a window's metrics exactly when
\* window.start <= created < first instant of the following month, and a row
\* dated from the start of the two-months-ago month up to the start of next
\* month is counted in exactly one of the three windows.
C2_HalfOpenMonthMembership ==
    Resolved =>
        \A k \in 1..Len(df.rows) :
            /\ \A p \in PeriodNames :
                 Included(k, p) <=> InHalfOpenMonth(df.rows[k].created, periods[p].start)
            /\ ( /\ NotAfter(periods["two_months_ago"].start, df.rows[k].created)
                 /\ Before(df.rows[k].created,
                           FirstOfNextMonth(periods["current_month"].start)) )
                 => Cardinality({p \in PeriodNames : Included(k, p)}) = 1

\* C3: the three windows are the two-months-ago, last and current calendar
\* month, each starting at 00:00:00 on the first day of its month, and the
\* end of each window is the start of the next one, across a change of year.
C3_ContiguousCalendarMonths ==
    Resolved =>
        /\ periods["current_month"].start = Midnight(today.year, today.month, 1)
        /\ periods["last_month"].start
             = FirstOfPreviousMonth(periods["current_month"].start)
        /\ periods["two_months_ago"].start
             = FirstOfPreviousMonth(periods["last_month"].start)
        /\ periods["two_months_ago"].end = periods["last_month"].start
        /\ periods["last_month"].end = periods["current_month"].start
        /\ periods["current_month"].end
             = FirstOfNextMonth(periods["current_month"].start)

\* what holds of the windows as the code computes them: the starts are the
\* first instants of three consecutive calendar months, and each end is one
\* microsecond before the first instant of the month after its start
WindowsEndOneMicrosecondEarly ==
    Resolved =>
        /\ periods["current_month"].start = Midnight(today.year, today.month, 1)
        /\ periods["last_month"].start
             = FirstOfPreviousMonth(periods["current_month"].start)
        /\ periods["two_months_ago"].start
             = FirstOfPreviousMonth(periods["last_month"].start)
        /\ \A p \in PeriodNames :
             /\ periods[p].end.nano = 999999000
             /\ Before(periods[p].end, FirstOfNextMonth(periods[p].start))
             /\ periods[p].end = MinusMicrosecond(FirstOfNextMonth(periods[p].start))
        /\ pc = "ranged" => result = periods["current_month"]

\* a created date of microsecond resolution is in a window exactly when it
\* is in the window's half-open month
MicrosecondDatesFallInTheirMonth ==
    Resolved =>
        \A k \in 1..Len(df.rows) :
            df.rows[k].created.nano % 1000 = 0 =>
                \A p \in PeriodNames :
                    Included(k, p) <=> InHalfOpenMonth(df.rows[k].created, periods[p].start)

-----------------------------------------------------------------------------
(* Properties of a run of main, under Spec.                                *)

RequiredColumns == {CreatedDate, ShipmentID, ShippedQuantity, ReceivedQuantity}

\* C6: a window with no row yields six zeros and no error, and once
\* ingestion has succeeded (the file is read, its required columns are
\* there, its dates are parsed) the computation of every window completes.
C6_EmptyWindowZeroAndComputationTotal ==
    /\ pc \in {"computed", "reported"} =>
         \A p \in PeriodNames :
            RowsInWindow(df.rows, periods[p].start, periods[p].end) = {}
                => metrics[p] = ZeroMetrics
    /\ (RequiredColumns \subseteq df.columns) => pc # "aborted"

\* C8: the percentage next to Total Units Sent of last month is 100% when
\* that total is positive and blank when it is zero, in the display table
\* and in the exported Summary sheet.
C8_ReferenceTotalPinnedOrBlank ==
    (pc = "reported" /\ AllColumns \subseteq df.columns) =>
        LET sent == metrics["last_month"].total_units_sent IN
        /\ sent > 0 => /\ report.display["last_month"][1] = "100.0%"
                       /\ report.export["last_month"][1] = IntVal(1)
        /\ sent = 0 => /\ report.display["last_month"][1] = ""
                       /\ report.export["last_month"][1] = StrVal("")

\* C9: with a required column missing, calculate_metrics is never called
\* and no report is produced.
C9_MissingColumnAbortsBeforeMetrics ==
    (pc # "idle" /\ ~(RequiredColumns \subseteq df.columns)) =>
        /\ calls = 0
        /\ ~report.shown

\* C10: a row whose shipment id, shipped or received quantity is absent
\* never reaches calculate_metrics.
C10_IncompleteRowsRejected ==
    (AllColumns \subseteq df.columns /\ calls > 0) =>
        \A k \in 1..Len(df.rows) :
            /\ df.rows[k].id # NaN
            /\ df.rows[k].shipped # NaN
            /\ df.rows[k].received # NaN

-----------------------------------------------------------------------------
(* Property of format_percentage, under SpecFormat.                        *)

\* C7: a ratio with a zero denominator is blank: format_percentage returns
\* the empty string whenever total = 0, for every value and either setting
\* of force_hundred.
C7_ZeroTotalIsBlank ==
    (pc = "returned" /\ args.total = 0) => result = ""

-----------------------------------------------------------------------------
(* What holds of the code beside the properties above.                     *)

\* under SpecMetrics: when every in-window row has a shipment id, the two
\* totals are the truncated sums over all in-window rows
TotalsAreSumsWhenIdsPresent ==
    (pc = "returned" /\ \A k \in ArgWindowRows : ArgRows[k].id # NaN) =>
        /\ result.value.total_units_sent
             = IntOf(SumQuantity(ArgRows, ArgWindowRows, "shipped"))
        /\ result.value.total_units_received
             = IntOf(SumQuantity(ArgRows, ArgWindowRows, "received"))

\* under Spec: a window without rows gives six zeros, whatever columns the
\* file has besides the date
EmptyWindowGivesZeros ==
    pc \in {"computed", "reported"} =>
        \A p \in PeriodNames :
            RowsInWindow(df.rows, periods[p].start, periods[p].end) = {}
                => metrics[p] = ZeroMetrics

\* under Spec: the run aborts before the first call of calculate_metrics
\* exactly when the date column is missing
OnlyMissingDateAbortsAtIngestion ==
    (pc = "aborted" /\ calls = 0) <=> (pc # "idle" /\ pc # "read" /\ CreatedDate \notin df.columns)

\* under Spec: every computed ratio cell of the two tables is blank when its
\* denominator is not positive
ComputedRatioCellsBlankOnZero ==
    pc = "reported" =>
        \A p \in PeriodNames :
            /\ metrics[p].total_units_in_os <= 0 =>
                 \A i \in {5, 6} : /\ report.display[p][i] = ""
                                   /\ report.export[p][i] = StrVal("")
            /\ metrics[p].total_units_sent <= 0 => report.display[p][4] = ""
            /\ (p = "last_month" /\ metrics[p].total_units_sent <= 0) =>
                 /\ report.display[p][2] = ""
                 /\ report.export[p][2] = StrVal("")

\* under SpecFormat: without force_hundred a total of 0 gives the empty string
ZeroTotalIsBlankUnlessForced ==
    (pc = "returned" /\ args.total = 0 /\ ~args.force_hundred) => result = ""

=============================================================================
